---- MODULE Spec2Model ----
(***************************************************************************)
(* The approval and subscription-gated marketplace state machine of the    *)
(* MYLES fitness platform: the Express route handlers of server/routes.ts  *)
(* over the tables of shared/schema.ts, through the storage classes of     *)
(* server/storage.ts and server/trainerStorage.ts.                         *)
(*                                                                         *)
(* Every table is a sequence of rows; a row's id is its index (serial      *)
(* primary keys, rows are never deleted).  Money is in pence.  One action  *)
(* is one whole HTTP request: the handler's early returns are the action's *)
(* branches, and the response it sends is left in resp.                    *)
(***************************************************************************)
EXTENDS Integers, Sequences, FiniteSets, TLC

\* ------------------------------------------------------------------ bounds
MaxBusinesses == 2
MaxSessions == 1
MaxBookings == 1
MaxClaims == 1
MaxTrainers == 1
MaxSubs == 1
MaxTrainerBookings == 1
MaxCalls == 2

\* ------------------------------------------------------------- vocabulary
NULL == "null"
\* An optional key of a request body: ABSENT, or Some(value).
ABSENT == <<>>
Some(v) == <<v>>
\* The NULL of an integer column (serial ids start at 1).
NOID == 0

UserIds == {"u1", "u2", "admin"}
Tiers == {"free", "basic", "premium"}
PaidTiers == {"basic", "premium"}
TierInputs == Tiers \cup {"gold"}
ClaimStatuses == {"pending", "approved", "rejected"}
PeriodEnd == "periodEnd"
Prices == {2000}
AdminEmail == "admin@mylesfitness.co.uk"

\* Text that a search matches against is a sequence of characters.
Postcodes == {<<"S", "W", "1">>, <<"N", "1">>}
\* The session_types table (seeded, never written by a request): id -> name.
sessionTypes == <<(<<"Y", "o", "g", "a">>), (<<"H", "I", "I", "T">>)>>
SessionTypeIds == 1..Len(sessionTypes)

BusinessIds == 1..MaxBusinesses
SessionIds == 1..MaxSessions
BookingIds == 1..MaxBookings
ClaimIds == 1..MaxClaims
TrainerIds == 1..MaxTrainers
TrainerBookingIds == 1..MaxTrainerBookings

VARIABLES users, businesses, businessClaims, fitnessSessions, bookings,
          personalTrainers, stripeSubs, stripeCustomers, paymentIntents,
          trainerBookings, selectedDifficulties, selectedAgeGroups,
          upgradeCalls, resp

vars == <<users, businesses, businessClaims, fitnessSessions, bookings,
          personalTrainers, stripeSubs, stripeCustomers, paymentIntents,
          trainerBookings, selectedDifficulties, selectedAgeGroups,
          upgradeCalls, resp>>

data == <<users, businesses, businessClaims, fitnessSessions, bookings,
          personalTrainers, stripeSubs, stripeCustomers, paymentIntents,
          trainerBookings, selectedDifficulties, selectedAgeGroups,
          upgradeCalls>>

\* A column default: the value the database stores when the insert omits it.
Default(v, d) == IF v = ABSENT THEN d ELSE v[1]

\* The request just served (its route, its authenticated caller, the id it
\* names), the status of the response, the recipient of the e-mail it tried
\* to send (NULL: none) and what became of the send ("none", "sent",
\* "failed": sendEmail logs a failure to the console).
Response(op, caller, target, status, mail) ==
    [op |-> op, caller |-> caller, target |-> target, status |-> status, mail |-> mail,
     sent |-> "none"]

\* sendEmail: true when the mail service took the message, false when it
\* refused it; the error is caught and logged inside, never thrown.
sendEmail(to, accepted) == accepted

\* A handler that answers 500 when its notification was not sent.
AfterSendStrict(sent, response) ==
    IF sent /\ response.sent # "failed" THEN [response EXCEPT !.sent = "sent"]
    ELSE [response EXCEPT !.sent = "failed", !.status = 500]

\* `await sendEmail({...})` as a statement: the handler drops what the call
\* returns and goes on to its response; the outcome stays in the log only.
AfterSend(sent, response) ==
    IF sent /\ response.sent # "failed" THEN [response EXCEPT !.sent = "sent"]
    ELSE [response EXCEPT !.sent = "failed"]

\* Whether the mail service takes a message.
MailOutcomes == BOOLEAN

\* ------------------------------------------------------------------ users
\* The users table: role defaults to "user"; e-mail is nullable.
InitUsers ==
    [u \in UserIds |->
        [role |-> IF u = "admin" THEN "admin" ELSE IF u = "u2" THEN "business" ELSE "user",
         email |-> IF u = "u2" THEN NULL ELSE u,
         stripeCustomerId |-> NULL]]

getUser(id) == users[id]

\* A gate that lets every role but "user" through.
isAdminNotUser(caller) == getUser(caller).role # "user"

\* The admin routes' gate: user?.role !== 'admin' answers 403.
isAdmin(caller) == getUser(caller).role = "admin"

\* -------------------------------------------------------------- businesses
\* A row inserted by hand for a business nobody owns yet (userId is nullable
\* "for manually added businesses").
ManualBusiness ==
    [userId |-> NULL, postcode |-> <<"N", "1">>,
     approved |-> TRUE, claimed |-> FALSE, manuallyAdded |-> TRUE,
     subscriptionTier |-> "free", bookingEnabled |-> FALSE,
     subscriptionExpiry |-> NULL, stripeSubscriptionId |-> NOID]

\* Request bodies of POST /api/businesses: every column of the insert schema
\* is accepted; ABSENT is a key the body does not carry.
PlainBusinessBody ==
    [name |-> Some("FitLife"), postcode |-> Some(<<"S", "W", "1">>),
     userId |-> ABSENT, approved |-> ABSENT, claimed |-> ABSENT,
     manuallyAdded |-> ABSENT, subscriptionTier |-> ABSENT, bookingEnabled |-> ABSENT]

BusinessBodies ==
    { PlainBusinessBody,
      [PlainBusinessBody EXCEPT !.userId = Some(NULL), !.approved = Some(TRUE),
                                !.claimed = Some(TRUE), !.bookingEnabled = Some(TRUE)],
      [PlainBusinessBody EXCEPT !.name = ABSENT] }

\* insertBusinessSchema.parse: name, address and postcode are required.
insertBusinessSchemaAccepts(body) == body.name # ABSENT /\ body.postcode # ABSENT

\* The spread the other way round, {userId, ...req.body}: the body's userId wins.
BusinessRowBodyFirst(body, userId) ==
    [userId |-> Default(body.userId, userId),
     postcode |-> body.postcode[1],
     approved |-> Default(body.approved, FALSE),
     claimed |-> Default(body.claimed, FALSE),
     manuallyAdded |-> Default(body.manuallyAdded, FALSE),
     subscriptionTier |-> Default(body.subscriptionTier, "free"),
     bookingEnabled |-> Default(body.bookingEnabled, FALSE),
     subscriptionExpiry |-> NULL,
     stripeSubscriptionId |-> NOID]

\* insertBusinessSchema.parse({...req.body, userId}) then the insert's defaults.
BusinessRow(body, userId) ==
    [userId |-> userId,
     postcode |-> body.postcode[1],
     approved |-> Default(body.approved, FALSE),
     claimed |-> Default(body.claimed, FALSE),
     manuallyAdded |-> Default(body.manuallyAdded, FALSE),
     subscriptionTier |-> Default(body.subscriptionTier, "free"),
     bookingEnabled |-> Default(body.bookingEnabled, FALSE),
     subscriptionExpiry |-> NULL,
     stripeSubscriptionId |-> NOID]

BusinessExists(id) == id \in 1..Len(businesses)

getBusinessesByUserId(userId) ==
    {id \in 1..Len(businesses) : businesses[id].userId = userId}

\* POST /api/businesses
RegisterBusiness(caller, body) ==
    /\ IF ~insertBusinessSchemaAccepts(body)
       THEN /\ resp' = Response("registerBusiness", caller, NOID, 500, NULL)
            /\ UNCHANGED businesses
       ELSE /\ Len(businesses) < MaxBusinesses
            /\ businesses' = Append(businesses, BusinessRow(body, caller))
            /\ \E accepted \in MailOutcomes :
                 resp' = AfterSend(sendEmail(AdminEmail, accepted),
                             Response("registerBusiness", caller, NOID, 201, AdminEmail))
    /\ UNCHANGED <<users, businessClaims, fitnessSessions, bookings, personalTrainers,
                   stripeSubs, stripeCustomers, paymentIntents,
                   trainerBookings, selectedDifficulties, selectedAgeGroups, upgradeCalls>>

\* An approval write that also switches booking off when it unapproves.
updateBusinessApprovalResetBooking(id, approved) ==
    IF BusinessExists(id)
    THEN [businesses EXCEPT ![id].approved = approved,
                            ![id].bookingEnabled = IF approved THEN @ ELSE FALSE]
    ELSE businesses

\* storage.updateBusinessApproval: an update of no row when the id is unknown.
updateBusinessApproval(id, approved) ==
    IF BusinessExists(id) THEN [businesses EXCEPT ![id].approved = approved]
    ELSE businesses

\* PUT /api/admin/businesses/:id/approve
ApproveBusiness(caller, id, approved) ==
    /\ IF ~isAdmin(caller)
       THEN /\ resp' = Response("approveBusiness", caller, id, 403, NULL)
            /\ UNCHANGED businesses
       ELSE /\ businesses' = updateBusinessApproval(id, approved)
            /\ \E accepted \in MailOutcomes :
                 resp' =
                 IF ~BusinessExists(id)
                 THEN Response("approveBusiness", caller, id, 200, NULL)
                 ELSE IF businesses[id].userId = NULL
                 \* businessDetails.user is null: reading .email throws
                 THEN Response("approveBusiness", caller, id, 500, NULL)
                 ELSE IF getUser(businesses[id].userId).email # NULL
                 THEN AfterSend(sendEmail(getUser(businesses[id].userId).email, accepted),
                          Response("approveBusiness", caller, id, 200,
                                   getUser(businesses[id].userId).email))
                 ELSE Response("approveBusiness", caller, id, 200, NULL)
    /\ UNCHANGED <<users, businessClaims, fitnessSessions, bookings, personalTrainers,
                   stripeSubs, stripeCustomers, paymentIntents,
                   trainerBookings, selectedDifficulties, selectedAgeGroups, upgradeCalls>>

\* A partial update that skips the columns given as null.
updateBusinessSubscriptionSkipNull(id, tier, enabled, expiry, subId) ==
    [businesses EXCEPT ![id].subscriptionTier = tier,
                       ![id].bookingEnabled = enabled,
                       ![id].subscriptionExpiry = IF expiry = NULL THEN @ ELSE expiry,
                       ![id].stripeSubscriptionId = IF subId = NOID THEN @ ELSE subId]

\* An update of the tier alone.
updateBusinessSubscriptionTierOnly(id, tier, enabled, expiry, subId) ==
    [businesses EXCEPT ![id].subscriptionTier = tier]

\* storage.updateBusinessSubscription
updateBusinessSubscription(id, tier, enabled, expiry, subId) ==
    [businesses EXCEPT ![id].subscriptionTier = tier,
                       ![id].bookingEnabled = enabled,
                       ![id].subscriptionExpiry = expiry,
                       ![id].stripeSubscriptionId = subId]

\* storage.updateUserStripeCustomerId
updateUserStripeCustomerId(userId, customerId) ==
    [users EXCEPT ![userId].stripeCustomerId = customerId]

\* What a paid upgrade meets outside the database: the plan's price id missing
\* from process.env (read on every request), or the outcome of the two
\* payment-gateway calls.
GatewayOutcomes == {"ok", "unconfigured", "customerFails", "subscriptionFails"}

\* The paid branch of the upgrade handler, for one outcome of what it meets
\* outside the database.  The customer id is stored on the user as soon as the
\* gateway has created the customer, before the subscription is requested.
\* The subscription is created with payment_behavior 'default_incomplete'.
PaidUpgrade(caller, id, tier, gateway) ==
    IF gateway = "unconfigured"
    THEN /\ resp' = Response("upgradeSubscription", caller, id, 500, NULL)
         /\ UNCHANGED <<users, businesses, stripeSubs, stripeCustomers>>
    ELSE IF getUser(caller).stripeCustomerId = NULL /\ gateway = "customerFails"
    THEN /\ resp' = Response("upgradeSubscription", caller, id, 500, NULL)
         /\ UNCHANGED <<users, businesses, stripeSubs, stripeCustomers>>
    ELSE /\ IF getUser(caller).stripeCustomerId = NULL
            THEN /\ stripeCustomers' = [stripeCustomers EXCEPT ![caller] = @ + 1]
                 /\ users' = updateUserStripeCustomerId(caller, "cus")
            ELSE UNCHANGED <<users, stripeCustomers>>
         /\ IF gateway = "subscriptionFails"
            THEN /\ resp' = Response("upgradeSubscription", caller, id, 500, NULL)
                 /\ UNCHANGED <<businesses, stripeSubs>>
            ELSE /\ Len(stripeSubs) < MaxSubs
                 /\ stripeSubs' = Append(stripeSubs, [business |-> id, status |-> "incomplete"])
                 /\ businesses' = updateBusinessSubscription(
                                      id, tier, TRUE, PeriodEnd, Len(stripeSubs) + 1)
                 /\ resp' = Response("upgradeSubscription", caller, id, 200, NULL)

\* POST /api/businesses/:id/upgrade
UpgradeSubscription(caller, id, tier) ==
    /\ IF ~BusinessExists(id)
       THEN /\ resp' = Response("upgradeSubscription", caller, id, 403, NULL)
            /\ UNCHANGED <<users, businesses, stripeSubs, stripeCustomers>>
       ELSE IF businesses[id].userId = NULL
       \* business.user is null: reading .id throws
       THEN /\ resp' = Response("upgradeSubscription", caller, id, 500, NULL)
            /\ UNCHANGED <<users, businesses, stripeSubs, stripeCustomers>>
       ELSE IF businesses[id].userId # caller
       THEN /\ resp' = Response("upgradeSubscription", caller, id, 403, NULL)
            /\ UNCHANGED <<users, businesses, stripeSubs, stripeCustomers>>
       ELSE IF tier = "free"
       THEN /\ businesses' = updateBusinessSubscription(id, "free", FALSE, NULL, NOID)
            /\ resp' = Response("upgradeSubscription", caller, id, 200, NULL)
            /\ UNCHANGED <<users, stripeSubs, stripeCustomers>>
       ELSE IF tier \notin PaidTiers
       THEN /\ resp' = Response("upgradeSubscription", caller, id, 400, NULL)
            /\ UNCHANGED <<users, businesses, stripeSubs, stripeCustomers>>
       ELSE \E gateway \in GatewayOutcomes : PaidUpgrade(caller, id, tier, gateway)
    /\ UNCHANGED <<businessClaims, fitnessSessions, bookings, personalTrainers,
                   paymentIntents, trainerBookings, selectedDifficulties,
                   selectedAgeGroups, upgradeCalls>>

\* The paid branch one await at a time, for requests served concurrently: the
\* handler reads the user, then asks the gateway for a customer when the user
\* it read has none, then asks for the subscription.  A call is the handler's
\* locals (customerId is the value it read) and the await it stands at.
UpgradeBegin(caller, id, tier) ==
    /\ Len(upgradeCalls) < MaxCalls
    /\ BusinessExists(id)
    /\ businesses[id].userId = caller
    /\ tier \in PaidTiers
    /\ upgradeCalls' = Append(upgradeCalls,
           [caller |-> caller, id |-> id, tier |-> tier,
            customerId |-> getUser(caller).stripeCustomerId, pc |-> "customer"])
    /\ UNCHANGED <<users, businesses, businessClaims, fitnessSessions, bookings,
                   personalTrainers, stripeSubs, stripeCustomers, paymentIntents,
                   trainerBookings, selectedDifficulties, selectedAgeGroups, resp>>

\* if (!customerId) { stripe.customers.create; updateUserStripeCustomerId }
UpgradeCustomer(c, gateway) ==
    /\ c \in 1..Len(upgradeCalls)
    /\ upgradeCalls[c].pc = "customer"
    /\ LET call == upgradeCalls[c]
       IN  IF call.customerId # NULL
           THEN /\ upgradeCalls' = [upgradeCalls EXCEPT ![c].pc = "subscription"]
                /\ UNCHANGED <<users, stripeCustomers, resp>>
           ELSE IF gateway = "customerFails"
           THEN /\ upgradeCalls' = [upgradeCalls EXCEPT ![c].pc = "done"]
                /\ resp' = Response("upgradeSubscription", call.caller, call.id, 500, NULL)
                /\ UNCHANGED <<users, stripeCustomers>>
           ELSE /\ stripeCustomers' = [stripeCustomers EXCEPT ![call.caller] = @ + 1]
                /\ users' = updateUserStripeCustomerId(call.caller, "cus")
                /\ upgradeCalls' = [upgradeCalls EXCEPT ![c].customerId = "cus",
                                                        ![c].pc = "subscription"]
                /\ UNCHANGED resp
    /\ UNCHANGED <<businesses, businessClaims, fitnessSessions, bookings,
                   personalTrainers, stripeSubs, paymentIntents,
                   trainerBookings, selectedDifficulties, selectedAgeGroups>>

\* stripe.subscriptions.create; updateBusinessSubscription; res.json
UpgradeSubscribe(c, gateway) ==
    /\ c \in 1..Len(upgradeCalls)
    /\ upgradeCalls[c].pc = "subscription"
    /\ LET call == upgradeCalls[c]
       IN  IF gateway = "subscriptionFails"
           THEN /\ resp' = Response("upgradeSubscription", call.caller, call.id, 500, NULL)
                /\ UNCHANGED <<businesses, stripeSubs>>
           ELSE /\ Len(stripeSubs) < MaxSubs
                /\ stripeSubs' = Append(stripeSubs,
                                         [business |-> call.id, status |-> "incomplete"])
                /\ businesses' = updateBusinessSubscription(
                                     call.id, call.tier, TRUE, PeriodEnd, Len(stripeSubs) + 1)
                /\ resp' = Response("upgradeSubscription", call.caller, call.id, 200, NULL)
    /\ upgradeCalls' = [upgradeCalls EXCEPT ![c].pc = "done"]
    /\ UNCHANGED <<users, businessClaims, fitnessSessions, bookings,
                   personalTrainers, stripeCustomers, paymentIntents,
                   trainerBookings, selectedDifficulties, selectedAgeGroups>>

\* SubscriptionCheckoutForm.handleSubmit: stripe.confirmPayment goes from the
\* browser to the gateway; whatever its outcome, no request reaches the server.
ConfirmSubscriptionPayment(sub, paid) ==
    /\ sub \in 1..Len(stripeSubs)
    /\ stripeSubs[sub].status = "incomplete"
    /\ stripeSubs' = [stripeSubs EXCEPT ![sub].status = IF paid THEN "active" ELSE "failed"]
    /\ resp' = Response("confirmPayment", NULL, sub, 0, NULL)
    /\ UNCHANGED <<users, businesses, businessClaims, fitnessSessions, bookings,
                   personalTrainers, stripeCustomers, paymentIntents,
                   trainerBookings, selectedDifficulties, selectedAgeGroups, upgradeCalls>>

\* ------------------------------------------------------------------ claims
\* A test that takes a business for claimed only when it is flagged and owned.
isClaimedAndOwned(business) == business.claimed /\ business.userId # NULL

\* A test that looks at the claimed flag alone.
isClaimedFlag(business) == business.claimed

\* The claim route's test of the target: business.claimed || business.userId.
isClaimed(business) == business.claimed \/ business.userId # NULL

\* POST /api/businesses/:id/claim
ClaimBusiness(caller, id) ==
    /\ IF ~BusinessExists(id)
       THEN /\ resp' = Response("claimBusiness", caller, id, 404, NULL)
            /\ UNCHANGED businessClaims
       ELSE IF isClaimed(businesses[id])
       THEN /\ resp' = Response("claimBusiness", caller, id, 400, NULL)
            /\ UNCHANGED businessClaims
       ELSE /\ Len(businessClaims) < MaxClaims
            /\ businessClaims' = Append(businessClaims,
                   [businessId |-> id, userId |-> caller, status |-> "pending",
                    approvedAt |-> NULL])
            /\ \E accepted \in MailOutcomes :
                 resp' = AfterSend(sendEmail(AdminEmail, accepted),
                             Response("claimBusiness", caller, id, 201, AdminEmail))
    /\ UNCHANGED <<users, businesses, fitnessSessions, bookings, personalTrainers,
                   stripeSubs, stripeCustomers, paymentIntents,
                   trainerBookings, selectedDifficulties, selectedAgeGroups, upgradeCalls>>

\* storage.updateBusinessClaimStatus: the only write to a claim after its
\* creation; no route calls it, so it has no caller and sends no response.
updateBusinessClaimStatus(id, status) ==
    /\ id \in 1..Len(businessClaims)
    /\ businessClaims' = [businessClaims EXCEPT ![id].status = status]
    /\ resp' = Response("updateBusinessClaimStatus", NULL, id, 0, NULL)
    /\ UNCHANGED <<users, businesses, fitnessSessions, bookings, personalTrainers,
                   stripeSubs, stripeCustomers, paymentIntents,
                   trainerBookings, selectedDifficulties, selectedAgeGroups, upgradeCalls>>

\* ---------------------------------------------------------------- sessions
\* Request bodies of POST /api/sessions: businessId and approved are columns
\* of the insert schema like any other.
SessionBodies ==
    { [title |-> Some("Yoga"), businessId |-> Some(b), approved |-> a, price |-> Some(p),
       sessionTypeId |-> Some(1), ageGroups |-> Some({"18-25"}),
       difficulty |-> Some({"beginner"})] :
          b \in BusinessIds, a \in {ABSENT, Some(TRUE)}, p \in Prices }
    \cup { [title |-> ABSENT, businessId |-> Some(1), approved |-> ABSENT,
            price |-> Some(2000), sessionTypeId |-> Some(1),
            ageGroups |-> Some({"18-25"}), difficulty |-> Some({"beginner"})] }

\* insertFitnessSessionSchema.parse: the notNull columns are required.
insertFitnessSessionSchemaAccepts(body) ==
    /\ body.title # ABSENT /\ body.businessId # ABSENT /\ body.price # ABSENT
    /\ body.sessionTypeId # ABSENT /\ body.ageGroups # ABSENT /\ body.difficulty # ABSENT

FitnessSessionRow(body) ==
    [businessId |-> body.businessId[1],
     sessionTypeId |-> body.sessionTypeId[1],
     ageGroups |-> body.ageGroups[1],
     difficulty |-> body.difficulty[1],
     approved |-> Default(body.approved, FALSE),
     price |-> body.price[1]]

SessionExists(id) == id \in 1..Len(fitnessSessions)

\* POST /api/sessions
CreateSession(caller, body) ==
    /\ IF getBusinessesByUserId(caller) = {}
       THEN /\ resp' = Response("createSession", caller, Default(body.businessId, NOID), 403, NULL)
            /\ UNCHANGED fitnessSessions
       ELSE IF ~insertFitnessSessionSchemaAccepts(body)
       THEN /\ resp' = Response("createSession", caller, Default(body.businessId, NOID), 500, NULL)
            /\ UNCHANGED fitnessSessions
       ELSE IF ~BusinessExists(body.businessId[1])
               \/ body.sessionTypeId[1] \notin SessionTypeIds
       \* the foreign key of business_id or session_type_id rejects the insert
       THEN /\ resp' = Response("createSession", caller, Default(body.businessId, NOID), 500, NULL)
            /\ UNCHANGED fitnessSessions
       ELSE /\ Len(fitnessSessions) < MaxSessions
            /\ fitnessSessions' = Append(fitnessSessions, FitnessSessionRow(body))
            /\ \E accepted \in MailOutcomes :
                 resp' = AfterSend(sendEmail(AdminEmail, accepted),
                             Response("createSession", caller, Default(body.businessId, NOID),
                                      201, AdminEmail))
    /\ UNCHANGED <<users, businesses, businessClaims, bookings, personalTrainers,
                   stripeSubs, stripeCustomers, paymentIntents,
                   trainerBookings, selectedDifficulties, selectedAgeGroups, upgradeCalls>>

\* storage.updateFitnessSessionApproval
updateFitnessSessionApproval(id, approved) ==
    IF SessionExists(id) THEN [fitnessSessions EXCEPT ![id].approved = approved]
    ELSE fitnessSessions

\* PUT /api/admin/sessions/:id/approve
ApproveSession(caller, id, approved) ==
    /\ IF ~isAdmin(caller)
       THEN /\ resp' = Response("approveSession", caller, id, 403, NULL)
            /\ UNCHANGED fitnessSessions
       ELSE /\ fitnessSessions' = updateFitnessSessionApproval(id, approved)
            /\ resp' = Response("approveSession", caller, id, 200, NULL)
    /\ UNCHANGED <<users, businesses, businessClaims, bookings, personalTrainers,
                   stripeSubs, stripeCustomers, paymentIntents,
                   trainerBookings, selectedDifficulties, selectedAgeGroups, upgradeCalls>>

\* ------------------------------------------------------------------ search
\* Lower-casing, for the characters that occur here.
lower(ch) ==
    CASE ch = "S" -> "s" [] ch = "W" -> "w" [] ch = "N" -> "n" [] ch = "Y" -> "y"
      [] ch = "H" -> "h" [] ch = "I" -> "i" [] ch = "T" -> "t" [] OTHER -> ch

\* text ILIKE '%' || pattern || '%', for a pattern without wildcard characters.
ilike(text, pattern) ==
    \E i \in 0..(Len(text) - Len(pattern)) :
        \A j \in 1..Len(pattern) : lower(text[i + j]) = lower(pattern[j])

\* The query strings of GET /api/sessions/search: a parameter is ABSENT or
\* carries a value.
SearchQueries ==
    [postcode : {ABSENT, Some(<<"s", "w">>)},
     sessionType : {ABSENT, Some(<<"y", "o">>)},
     ageGroup : {ABSENT, Some("18-25")},
     difficulty : {ABSENT, Some("advanced")},
     maxPrice : {ABSENT, Some(1500)},
     minPrice : {ABSENT, Some(1500)}]

NoQuery ==
    [postcode |-> ABSENT, sessionType |-> ABSENT, ageGroup |-> ABSENT,
     difficulty |-> ABSENT, maxPrice |-> ABSENT, minPrice |-> ABSENT]

\* if (filters.x): a string that is present and not empty.
given(v) == v # ABSENT /\ v[1] # <<>>
givenWord(v) == v # ABSENT /\ v[1] # ""
\* filters.maxPrice !== undefined, after the route's req.query.maxPrice ? ... :
\* undefined.
defined(v) == v # ABSENT

\* The conditions joined by or(...) instead of and(...).
searchFitnessSessionsAny(filters) ==
    { id \in 1..Len(fitnessSessions) :
        LET session == fitnessSessions[id]
            business == businesses[session.businessId]
        IN  \/ session.approved = TRUE
            \/ given(filters.postcode) /\ ilike(business.postcode, filters.postcode[1])
            \/ given(filters.sessionType)
                  /\ ilike(sessionTypes[session.sessionTypeId], filters.sessionType[1])
            \/ givenWord(filters.ageGroup) /\ filters.ageGroup[1] \in session.ageGroups
            \/ givenWord(filters.difficulty) /\ filters.difficulty[1] \in session.difficulty
            \/ defined(filters.maxPrice) /\ session.price <= filters.maxPrice[1]
            \/ defined(filters.minPrice) /\ session.price >= filters.minPrice[1] }

\* storage.searchFitnessSessions: the ids of the rows the query selects.
searchFitnessSessions(filters) ==
    { id \in 1..Len(fitnessSessions) :
        LET session == fitnessSessions[id]
            business == businesses[session.businessId]
        IN  /\ session.approved = TRUE
            /\ given(filters.postcode) => ilike(business.postcode, filters.postcode[1])
            /\ given(filters.sessionType)
                  => ilike(sessionTypes[session.sessionTypeId], filters.sessionType[1])
            /\ givenWord(filters.ageGroup) => filters.ageGroup[1] \in session.ageGroups
            /\ givenWord(filters.difficulty) => filters.difficulty[1] \in session.difficulty
            /\ defined(filters.maxPrice) => session.price <= filters.maxPrice[1]
            /\ defined(filters.minPrice) => session.price >= filters.minPrice[1] }

\* GET /api/sessions/search (public: no caller); the response carries the
\* query it answers and the sessions it returns.
SearchSessions(query) ==
    /\ resp' = [op |-> "searchSessions", caller |-> NULL, target |-> NOID,
                status |-> 200, mail |-> NULL, sent |-> "none",
                query |-> query, sessions |-> searchFitnessSessions(query)]
    /\ UNCHANGED data

\* ---------------------------------------------------------------- bookings
\* BookingModal.handleSubmit: the total the platform's own client sends.
ClientTotalAmount(price) == price + (price \div 10)

\* The totals a request may carry: the client's own, and a forged one.
Amounts == {ClientTotalAmount(p) : p \in Prices} \cup {100}

\* Request bodies of POST /api/bookings.
BookingBodies ==
    { [sessionId |-> Some(s), totalAmount |-> Some(t), paymentIntentId |-> Some("pi"),
       status |-> ABSENT] :
          s \in SessionIds, t \in Amounts }
    \cup { [sessionId |-> Some(s), totalAmount |-> Some(100), paymentIntentId |-> ABSENT,
            status |-> ABSENT] : s \in SessionIds }
    \cup { [sessionId |-> Some(1), totalAmount |-> ABSENT, paymentIntentId |-> ABSENT,
            status |-> ABSENT] }

\* insertBookingSchema.parse: the notNull columns without a default are required.
insertBookingSchemaAccepts(body) ==
    body.sessionId # ABSENT /\ body.totalAmount # ABSENT

BookingRow(body, userId) ==
    [userId |-> userId,
     sessionId |-> body.sessionId[1],
     totalAmount |-> body.totalAmount[1],
     status |-> Default(body.status, "confirmed"),
     paymentIntentId |-> Default(body.paymentIntentId, NULL)]

\* POST /api/bookings
CreateBooking(caller, body) ==
    /\ IF ~insertBookingSchemaAccepts(body)
       THEN /\ resp' = Response("createBooking", caller, Default(body.sessionId, NOID), 500, NULL)
            /\ UNCHANGED bookings
       ELSE IF ~SessionExists(body.sessionId[1])
       \* the foreign key of session_id rejects the insert
       THEN /\ resp' = Response("createBooking", caller, Default(body.sessionId, NOID), 500, NULL)
            /\ UNCHANGED bookings
       ELSE /\ Len(bookings) < MaxBookings
            /\ bookings' = Append(bookings, BookingRow(body, caller))
            /\ \E accepted \in MailOutcomes :
                 resp' =
                 IF getUser(caller).email # NULL
                 THEN AfterSend(sendEmail(getUser(caller).email, accepted),
                          Response("createBooking", caller, Default(body.sessionId, NOID), 201,
                                   getUser(caller).email))
                 ELSE Response("createBooking", caller, Default(body.sessionId, NOID), 201, NULL)
    /\ UNCHANGED <<users, businesses, businessClaims, fitnessSessions, personalTrainers,
                   stripeSubs, stripeCustomers, paymentIntents,
                   trainerBookings, selectedDifficulties, selectedAgeGroups, upgradeCalls>>

\* Request bodies of POST /api/create-payment-intent.  The amount arrives in
\* pounds and goes to the gateway as Math.round(amount * 100) pence; amounts
\* here are pence throughout.
PaymentIntentBodies ==
    [amount : {ABSENT, Some(0)} \cup {Some(a) : a \in Amounts},
     sessionId : {ABSENT} \cup {Some(s) : s \in SessionIds}]

\* !amount, !sessionId: undefined or 0.
falsy(v) == v = ABSENT \/ v[1] = 0

\* POST /api/create-payment-intent: the gateway keeps the intent with its
\* amount and the session id in its metadata; the server keeps nothing.
CreatePaymentIntent(caller, body, gatewayOk) ==
    /\ IF falsy(body.amount) \/ falsy(body.sessionId)
       THEN /\ resp' = Response("createPaymentIntent", caller,
                                Default(body.sessionId, NOID), 400, NULL)
            /\ UNCHANGED paymentIntents
       ELSE IF ~gatewayOk
       THEN /\ resp' = Response("createPaymentIntent", caller, body.sessionId[1], 500, NULL)
            /\ UNCHANGED paymentIntents
       ELSE /\ paymentIntents' = paymentIntents \cup
                   {[amount |-> body.amount[1], sessionId |-> body.sessionId[1]]}
            /\ resp' = Response("createPaymentIntent", caller, body.sessionId[1], 200, NULL)
    /\ UNCHANGED <<users, businesses, businessClaims, fitnessSessions, bookings,
                   personalTrainers, stripeSubs, stripeCustomers, upgradeCalls,
                   trainerBookings, selectedDifficulties, selectedAgeGroups>>

\* bookings.status is a varchar: confirmed, cancelled, completed by convention.
BookingStatuses == {"confirmed", "cancelled", "completed"}
StatusInputs == BookingStatuses \cup {"refunded"}

\* Request bodies of POST /api/bookings that carry a status of their own
\* (insertBookingSchema omits only id, createdAt and updatedAt).
StatusBookingBodies ==
    { [sessionId |-> Some(s), totalAmount |-> Some(100), paymentIntentId |-> ABSENT,
       status |-> Some("completed")] : s \in SessionIds }

\* storage.updateBookingStatus: the only write to a booking after its
\* creation; no route calls it, so it has no caller and sends no response.
updateBookingStatus(id, status) ==
    /\ id \in 1..Len(bookings)
    /\ bookings' = [bookings EXCEPT ![id].status = status]
    /\ resp' = Response("updateBookingStatus", NULL, id, 0, NULL)
    /\ UNCHANGED <<users, businesses, businessClaims, fitnessSessions, personalTrainers,
                   stripeSubs, stripeCustomers, paymentIntents,
                   trainerBookings, selectedDifficulties, selectedAgeGroups, upgradeCalls>>

\* ---------------------------------------------------------------- trainers
\* Request bodies of POST /api/personal-trainers.
TrainerBodies ==
    { [firstName |-> Some("Sam"), approved |-> ABSENT, email |-> Some("sam")],
      [firstName |-> Some("Sam"), approved |-> Some(TRUE), email |-> ABSENT],
      [firstName |-> ABSENT, approved |-> ABSENT, email |-> ABSENT] }

\* insertPersonalTrainerSchema.parse: the notNull columns are required.
insertPersonalTrainerSchemaAccepts(body) == body.firstName # ABSENT

PersonalTrainerRow(body, userId) ==
    [userId |-> userId,
     approved |-> Default(body.approved, FALSE),
     email |-> Default(body.email, NULL)]

TrainerExists(id) == id \in 1..Len(personalTrainers)

\* POST /api/personal-trainers
ApplyAsTrainer(caller, body) ==
    /\ IF ~insertPersonalTrainerSchemaAccepts(body)
       THEN /\ resp' = Response("applyAsTrainer", caller, NOID, 500, NULL)
            /\ UNCHANGED personalTrainers
       ELSE /\ Len(personalTrainers) < MaxTrainers
            /\ personalTrainers' = Append(personalTrainers, PersonalTrainerRow(body, caller))
            /\ \E accepted \in MailOutcomes :
                 resp' = AfterSend(sendEmail(AdminEmail, accepted),
                             Response("applyAsTrainer", caller, NOID, 201, AdminEmail))
    /\ UNCHANGED <<users, businesses, businessClaims, fitnessSessions, bookings,
                   stripeSubs, stripeCustomers, paymentIntents,
                   trainerBookings, selectedDifficulties, selectedAgeGroups, upgradeCalls>>

\* trainerStorage.updatePersonalTrainerApproval
updatePersonalTrainerApproval(id, approved) ==
    IF TrainerExists(id) THEN [personalTrainers EXCEPT ![id].approved = approved]
    ELSE personalTrainers

\* PUT /api/admin/trainers/:id/approve
ApproveTrainer(caller, id, approved) ==
    /\ IF ~isAdmin(caller)
       THEN /\ resp' = Response("approveTrainer", caller, id, 403, NULL)
            /\ UNCHANGED personalTrainers
       ELSE /\ personalTrainers' = updatePersonalTrainerApproval(id, approved)
            /\ \E accepted \in MailOutcomes :
                 resp' =
                 IF TrainerExists(id) /\ personalTrainers[id].email # NULL
                 THEN AfterSend(sendEmail(personalTrainers[id].email, accepted),
                          Response("approveTrainer", caller, id, 200, personalTrainers[id].email))
                 ELSE Response("approveTrainer", caller, id, 200, NULL)
    /\ UNCHANGED <<users, businesses, businessClaims, fitnessSessions, bookings,
                   stripeSubs, stripeCustomers, paymentIntents,
                   trainerBookings, selectedDifficulties, selectedAgeGroups, upgradeCalls>>

\* Request bodies of POST /api/trainer-bookings: the body is parsed as it
\* comes, so it has to carry a userId of its own, which the caller's replaces.
TrainerBookingBodies ==
    { [trainerId |-> Some(t), userId |-> Some("u1"), clientEmail |-> Some("client"),
       status |-> ABSENT] : t \in TrainerIds }
    \cup { [trainerId |-> Some(1), userId |-> ABSENT, clientEmail |-> Some("client"),
            status |-> ABSENT],
           [trainerId |-> Some(1), userId |-> Some("u1"), clientEmail |-> ABSENT,
            status |-> ABSENT] }

\* insertTrainerBookingSchema.parse: the notNull columns without a default are
\* required.
insertTrainerBookingSchemaAccepts(body) ==
    body.trainerId # ABSENT /\ body.userId # ABSENT /\ body.clientEmail # ABSENT

\* {...bookingData, userId} then the insert's defaults.
TrainerBookingRow(body, userId) ==
    [userId |-> userId,
     trainerId |-> body.trainerId[1],
     clientEmail |-> body.clientEmail[1],
     status |-> Default(body.status, "confirmed")]

\* trainerStorage.getPersonalTrainerById, as far as the routes read it: the
\* trainer's own e-mail, or else the e-mail of the user behind the trainer.
trainerRecipient(id) ==
    IF personalTrainers[id].email # NULL THEN personalTrainers[id].email
    ELSE getUser(personalTrainers[id].userId).email

\* POST /api/trainer-bookings: the insert, then one mail to the client and one
\* to the trainer; the response records the client's.
CreateTrainerBooking(caller, body) ==
    /\ IF ~insertTrainerBookingSchemaAccepts(body)
       THEN /\ resp' = Response("createTrainerBooking", caller,
                                Default(body.trainerId, NOID), 500, NULL)
            /\ UNCHANGED trainerBookings
       ELSE IF ~TrainerExists(body.trainerId[1])
       \* the foreign key of trainer_id rejects the insert
       THEN /\ resp' = Response("createTrainerBooking", caller, body.trainerId[1], 500, NULL)
            /\ UNCHANGED trainerBookings
       ELSE /\ Len(trainerBookings) < MaxTrainerBookings
            /\ trainerBookings' = Append(trainerBookings, TrainerBookingRow(body, caller))
            /\ \E toClient \in MailOutcomes, toTrainer \in MailOutcomes :
                 resp' = AfterSend(sendEmail(trainerRecipient(body.trainerId[1]), toTrainer),
                             AfterSend(sendEmail(body.clientEmail[1], toClient),
                                 Response("createTrainerBooking", caller, body.trainerId[1],
                                          201, body.clientEmail[1])))
    /\ UNCHANGED <<users, businesses, businessClaims, fitnessSessions, bookings,
                   personalTrainers, stripeSubs, stripeCustomers, paymentIntents,
                   selectedDifficulties, selectedAgeGroups, upgradeCalls>>

\* trainerStorage.searchPersonalTrainers, for filters that carry no search
\* text, specialty, location or rate: the condition approved = true is pushed
\* unless filters.approved is false, and no condition selects every row.
\* approved is the filters' approved key: ABSENT, Some(TRUE) or Some(FALSE).
searchPersonalTrainers(approved) ==
    { id \in 1..Len(personalTrainers) :
        approved # Some(FALSE) => personalTrainers[id].approved = TRUE }

\* trainerStorage.getPendingPersonalTrainers
getPendingPersonalTrainers == searchPersonalTrainers(Some(FALSE))

\* GET /api/admin/trainers/pending
GetPendingTrainers(caller) ==
    /\ resp' = IF ~isAdmin(caller)
               THEN [op |-> "getPendingTrainers", caller |-> caller, target |-> NOID,
                     status |-> 403, mail |-> NULL, sent |-> "none", trainers |-> {}]
               ELSE [op |-> "getPendingTrainers", caller |-> caller, target |-> NOID,
                     status |-> 200, mail |-> NULL, sent |-> "none",
                     trainers |-> getPendingPersonalTrainers]
    /\ UNCHANGED data

\* GET /api/personal-trainers/search: the route's filters carry no approved key.
SearchTrainers ==
    /\ resp' = [op |-> "searchTrainers", caller |-> NULL, target |-> NOID,
                status |-> 200, mail |-> NULL, sent |-> "none",
                trainers |-> searchPersonalTrainers(ABSENT)]
    /\ UNCHANGED data

\* ------------------------------------------------------------ session form
\* EnhancedSessionForm: the options of the two checkbox groups; the last of
\* each stands for "all of them".
difficultyOptions == <<"beginner", "intermediate", "advanced", "all_levels">>
ageGroupOptions == <<"18-25", "26-35", "36-50", "50+", "all_ages">>

\* Array.prototype.includes and Array.prototype.filter(x => x !== v)
includes(array, v) == \E i \in 1..Len(array) : array[i] = v
without(array, v) == LET keep(x) == x # v IN SelectSeq(array, keep)

\* A handler that appends the checked value and filters nothing.
handleDifficultyChangeAppend(difficulty, checked) ==
    IF difficulty = "all_levels"
    THEN IF checked THEN <<"all_levels">> ELSE <<>>
    ELSE IF checked THEN Append(selectedDifficulties, difficulty)
         ELSE without(selectedDifficulties, difficulty)

\* handleDifficultyChange: the new value of selectedDifficulties
handleDifficultyChange(difficulty, checked) ==
    IF difficulty = "all_levels"
    THEN IF checked THEN <<"all_levels">> ELSE <<>>
    ELSE IF checked THEN Append(without(selectedDifficulties, "all_levels"), difficulty)
         ELSE without(selectedDifficulties, difficulty)

\* handleAgeGroupChange: the new value of selectedAgeGroups
handleAgeGroupChange(ageGroup, checked) ==
    IF ageGroup = "all_ages"
    THEN IF checked THEN <<"all_ages">> ELSE <<>>
    ELSE IF checked THEN Append(without(selectedAgeGroups, "all_ages"), ageGroup)
         ELSE without(selectedAgeGroups, ageGroup)

\* A click on a difficulty checkbox: the box shows
\* selectedDifficulties.includes(option), and onCheckedChange hands the
\* handler the opposite.
ChangeDifficulty(i) ==
    /\ selectedDifficulties' =
           handleDifficultyChange(difficultyOptions[i],
                                  ~includes(selectedDifficulties, difficultyOptions[i]))
    /\ resp' = Response("changeDifficulty", NULL, i, 0, NULL)
    /\ UNCHANGED <<users, businesses, businessClaims, fitnessSessions, bookings,
                   personalTrainers, stripeSubs, stripeCustomers, paymentIntents,
                   trainerBookings, selectedAgeGroups, upgradeCalls>>

\* A click on an age-group checkbox.
ChangeAgeGroup(i) ==
    /\ selectedAgeGroups' =
           handleAgeGroupChange(ageGroupOptions[i],
                                ~includes(selectedAgeGroups, ageGroupOptions[i]))
    /\ resp' = Response("changeAgeGroup", NULL, i, 0, NULL)
    /\ UNCHANGED <<users, businesses, businessClaims, fitnessSessions, bookings,
                   personalTrainers, stripeSubs, stripeCustomers, paymentIntents,
                   trainerBookings, selectedDifficulties, upgradeCalls>>

\* ------------------------------------------------------------ specification
Init ==
    /\ users = InitUsers
    /\ businesses = <<ManualBusiness>>
    /\ businessClaims = <<>>
    /\ fitnessSessions = <<>>
    /\ bookings = <<>>
    /\ personalTrainers = <<>>
    /\ stripeSubs = <<>>
    /\ stripeCustomers = [u \in UserIds |-> 0]
    /\ paymentIntents = {}
    /\ trainerBookings = <<>>
    /\ selectedDifficulties = <<"beginner">>
    /\ selectedAgeGroups = <<"18-25">>
    /\ upgradeCalls = <<>>
    /\ resp = Response("none", NULL, NOID, 0, NULL)

\* The requests by the part of the marketplace they belong to.
BusinessRequests ==
    \/ \E c \in UserIds, body \in BusinessBodies : RegisterBusiness(c, body)
    \/ \E c \in UserIds, id \in BusinessIds, a \in BOOLEAN : ApproveBusiness(c, id, a)
    \/ \E c \in UserIds, id \in BusinessIds, t \in TierInputs :
          UpgradeSubscription(c, id, t)

ClaimRequests ==
    \/ \E c \in UserIds, id \in BusinessIds : ClaimBusiness(c, id)
    \/ \E id \in ClaimIds, s \in ClaimStatuses : updateBusinessClaimStatus(id, s)

SessionRequests ==
    \/ \E c \in UserIds, body \in SessionBodies : CreateSession(c, body)
    \/ \E c \in UserIds, id \in SessionIds, a \in BOOLEAN : ApproveSession(c, id, a)

BookingRequests ==
    \E c \in UserIds, body \in BookingBodies : CreateBooking(c, body)

TrainerRequests ==
    \/ \E c \in UserIds, body \in TrainerBodies : ApplyAsTrainer(c, body)
    \/ \E c \in UserIds, id \in TrainerIds, a \in BOOLEAN : ApproveTrainer(c, id, a)

TrainerBookingRequests ==
    \E c \in UserIds, body \in TrainerBookingBodies : CreateTrainerBooking(c, body)

TrainerQueries ==
    \/ \E c \in UserIds : GetPendingTrainers(c)
    \/ SearchTrainers

FormEvents ==
    \/ \E i \in 1..Len(difficultyOptions) : ChangeDifficulty(i)
    \/ \E i \in 1..Len(ageGroupOptions) : ChangeAgeGroup(i)

Next ==
    \/ BusinessRequests
    \/ ClaimRequests
    \/ SessionRequests
    \/ BookingRequests
    \/ TrainerRequests
    \/ TrainerBookingRequests
    \/ TrainerQueries
    \/ FormEvents

Spec == Init /\ [][Next]_vars

\* The business lifecycle alone: registration, approval, subscription, claims.
\* No other request writes a business, a claim or a user.
NextBusiness == BusinessRequests \/ ClaimRequests
SpecBusiness == Init /\ [][NextBusiness]_vars

\* Businesses with their sessions and the bookings against them.
NextBooking == BusinessRequests \/ SessionRequests \/ BookingRequests
SpecBooking == Init /\ [][NextBooking]_vars

\* Search as a function of the tables: any one business and any sessions of
\* it that the requests above can have created, and every query against them.
SearchBusinesses ==
    { [ManualBusiness EXCEPT !.postcode = p] : p \in Postcodes }

SearchSessionRows ==
    [businessId : {1}, sessionTypeId : SessionTypeIds,
     ageGroups : {{"18-25"}, {"all_ages"}},
     difficulty : {{"beginner"}, {"beginner", "advanced"}},
     approved : BOOLEAN, price : {1000, 2000}]

InitSearch ==
    /\ users = InitUsers
    /\ businesses \in {<<b>> : b \in SearchBusinesses}
    /\ businessClaims = <<>>
    /\ fitnessSessions \in UNION {[1..n -> SearchSessionRows] : n \in 1..MaxSessions}
    /\ bookings = <<>>
    /\ personalTrainers = <<>>
    /\ stripeSubs = <<>>
    /\ stripeCustomers = [u \in UserIds |-> 0]
    /\ paymentIntents = {}
    /\ trainerBookings = <<>>
    /\ selectedDifficulties = <<"beginner">>
    /\ selectedAgeGroups = <<"18-25">>
    /\ upgradeCalls = <<>>
    /\ resp = Response("none", NULL, NOID, 0, NULL)

NextSearch == \E q \in SearchQueries : SearchSessions(q)
SpecSearch == InitSearch /\ [][NextSearch]_vars

\* What a visitor's search shows while businesses and sessions are registered,
\* created and approved or unapproved.
NextVisibility ==
    \/ \E c \in UserIds, body \in BusinessBodies : RegisterBusiness(c, body)
    \/ \E c \in UserIds, id \in BusinessIds, a \in BOOLEAN : ApproveBusiness(c, id, a)
    \/ SessionRequests
    \/ SearchSessions(NoQuery)
SpecVisibility == Init /\ [][NextVisibility]_vars

\* The life of a booking: what it takes to create one, and its status.
NextBookingStatus ==
    \/ \E c \in UserIds, body \in BusinessBodies : RegisterBusiness(c, body)
    \/ \E c \in UserIds, body \in SessionBodies : CreateSession(c, body)
    \/ \E c \in UserIds, body \in BookingBodies \cup StatusBookingBodies :
          CreateBooking(c, body)
    \/ \E id \in BookingIds, st \in StatusInputs : updateBookingStatus(id, st)
SpecBookingStatus == Init /\ [][NextBookingStatus]_vars

\* Paying for a booking: the payment intent and the booking are two requests.
NextPayment ==
    \/ \E c \in UserIds, body \in BusinessBodies : RegisterBusiness(c, body)
    \/ \E c \in UserIds, body \in SessionBodies : CreateSession(c, body)
    \/ \E c \in UserIds, body \in PaymentIntentBodies, ok \in BOOLEAN :
          CreatePaymentIntent(c, body, ok)
    \/ BookingRequests
SpecPayment == Init /\ [][NextPayment]_vars

\* The subscription of a business: registration, approval, the upgrade
\* requests and the payment the owner confirms, or fails to, afterwards.
NextSubscription ==
    \/ BusinessRequests
    \/ \E sub \in 1..MaxSubs, paid \in BOOLEAN : ConfirmSubscriptionPayment(sub, paid)
SpecSubscription == Init /\ [][NextSubscription]_vars

\* Paid upgrades served concurrently, one await at a time.
NextUpgradeRace ==
    \/ \E c \in UserIds, body \in BusinessBodies : RegisterBusiness(c, body)
    \/ \E c \in UserIds, id \in BusinessIds, t \in PaidTiers : UpgradeBegin(c, id, t)
    \/ \E c \in 1..MaxCalls, g \in {"ok", "customerFails"} : UpgradeCustomer(c, g)
    \/ \E c \in 1..MaxCalls, g \in {"ok", "subscriptionFails"} : UpgradeSubscribe(c, g)
SpecUpgradeRace == Init /\ [][NextUpgradeRace]_vars

\* The three approval queues: what is submitted for approval, and its approval.
NextApproval ==
    \/ \E c \in UserIds, body \in BusinessBodies : RegisterBusiness(c, body)
    \/ \E c \in UserIds, id \in BusinessIds, a \in BOOLEAN : ApproveBusiness(c, id, a)
    \/ SessionRequests
    \/ TrainerRequests
SpecApproval == Init /\ [][NextApproval]_vars

\* Personal trainers: applications, their approval, the bookings against
\* them, and the two lists of trainers.
NextTrainer == TrainerRequests \/ TrainerBookingRequests \/ TrainerQueries
SpecTrainer == Init /\ [][NextTrainer]_vars

\* Every request that sends a notification, with the bodies a well-behaved
\* client sends: a registration by u1, the sessions and bookings of u1 and u2,
\* a claim and a trainer application by u2, and the admin's approvals.
NextNotify ==
    \/ RegisterBusiness("u1", PlainBusinessBody)
    \/ \E id \in BusinessIds, a \in BOOLEAN : ApproveBusiness("admin", id, a)
    \/ \E id \in BusinessIds : ClaimBusiness("u2", id)
    \/ \E body \in SessionBodies : CreateSession("u1", body)
    \/ \E c \in {"u1", "u2"}, body \in BookingBodies : CreateBooking(c, body)
    \/ \E body \in TrainerBodies : ApplyAsTrainer("u2", body)
    \/ \E id \in TrainerIds, a \in BOOLEAN : ApproveTrainer("admin", id, a)
    \/ \E body \in TrainerBookingBodies : CreateTrainerBooking("u1", body)
SpecNotify == Init /\ [][NextNotify]_vars

\* The two checkbox groups of the session form, from their default selection.
SpecSessionForm == Init /\ [][FormEvents]_vars

\* ------------------------------------------------------------------ claims
LastBusiness == businesses[Len(businesses)]
LastSession == fitnessSessions[Len(fitnessSessions)]
LastBooking == bookings[Len(bookings)]
LastTrainer == personalTrainers[Len(personalTrainers)]
Created(op) == resp.op = op /\ resp.status = 201

\* C1: in every reachable state a business with bookingEnabled = true has a
\* paid subscription tier and is approved.
C1_BookingEnabledGated ==
    \A id \in 1..Len(businesses) :
        businesses[id].bookingEnabled =>
            businesses[id].subscriptionTier # "free" /\ businesses[id].approved

\* C2: a booking is created only against an approved session of an approved
\* business with booking enabled (the state right after the insert is the
\* state at creation: the handler writes no session and no business).
C2_BookingAdmission ==
    Created("createBooking") =>
        LET s == fitnessSessions[LastBooking.sessionId]
        IN  /\ s.approved
            /\ businesses[s.businessId].approved
            /\ businesses[s.businessId].bookingEnabled

\* C3: the stored totalAmount of a created booking is the session's price
\* plus 10% of it, within one penny.
C3_TotalAmountIsPricePlusFee ==
    Created("createBooking") =>
        LET price == fitnessSessions[LastBooking.sessionId].price
            diff == 10 * LastBooking.totalAmount - 11 * price
        IN  diff >= -10 /\ diff <= 10

\* C4: no state shows a claim approved while its business is unclaimed or
\* owned by someone else, nor a business claimed by a claim still pending.
C4_ClaimApprovalAtomic ==
    \A c \in 1..Len(businessClaims) :
        LET claim == businessClaims[c]
            business == businesses[claim.businessId]
        IN  /\ claim.status = "approved" =>
                   business.claimed /\ business.userId = claim.userId
                   /\ claim.approvedAt # NULL
            /\ (business.claimed /\ business.userId = claim.userId) =>
                   claim.status # "pending"

\* C5: every business with claimed = true has an owner.
C5_ClaimedHasOwner ==
    \A id \in 1..Len(businesses) :
        businesses[id].claimed => businesses[id].userId # NULL

C5_Witness ==
    /\ Created("registerBusiness")
    /\ LastBusiness.claimed
    /\ LastBusiness.userId = resp.caller

\* C6: a registration creates a business owned by the caller, unapproved,
\* claimed, not manually added, on the free tier, booking disabled, and the
\* caller's businesses then list it unapproved.
C6_RegisteredBusinessState ==
    Created("registerBusiness") =>
        /\ LastBusiness.userId = resp.caller
        /\ LastBusiness.approved = FALSE
        /\ LastBusiness.claimed = TRUE
        /\ LastBusiness.manuallyAdded = FALSE
        /\ LastBusiness.subscriptionTier = "free"
        /\ LastBusiness.bookingEnabled = FALSE
        /\ Len(businesses) \in getBusinessesByUserId(resp.caller)

\* C7: a session and a trainer profile are created unapproved whatever the
\* request carries, and approved changes only in an admin's approval request.
C7_ApprovedOnlyByAdmin ==
    [][/\ \A id \in 1..Len(fitnessSessions') :
             (fitnessSessions'[id].approved
              /\ (id > Len(fitnessSessions) \/ ~fitnessSessions[id].approved))
             => (resp'.op = "approveSession" /\ getUser(resp'.caller).role = "admin")
       /\ \A id \in 1..Len(personalTrainers') :
             (personalTrainers'[id].approved
              /\ (id > Len(personalTrainers) \/ ~personalTrainers[id].approved))
             => (resp'.op = "approveTrainer" /\ getUser(resp'.caller).role = "admin")]_vars

\* C8: an approval request (business, session, trainer) by a caller whose role
\* is not admin is answered 403, writes nothing and sends no e-mail.
ApprovalOps == {"approveBusiness", "approveSession", "approveTrainer"}

C8_NonAdminApprovalDenied ==
    [][(resp'.op \in ApprovalOps /\ getUser(resp'.caller).role # "admin")
       => (resp'.status = 403 /\ resp'.mail = NULL /\ UNCHANGED data)]_vars

C8_Witness ==
    /\ resp.op = "approveTrainer"
    /\ resp.status = 403
    /\ getUser(resp.caller).role = "business"
    /\ TrainerExists(resp.target)
    /\ ~personalTrainers[resp.target].approved

\* C9: a session is created only for a caller who owns an approved business.
C9_SessionNeedsApprovedBusiness ==
    Created("createSession") =>
        \E id \in getBusinessesByUserId(resp.caller) : businesses[id].approved

\* C10: a claim on a business that is claimed or owned is answered 400 and
\* creates no claim; a claim on an unclaimed, unowned business creates one
\* pending claim for the caller; neither writes the business.
C10_ClaimBusiness ==
    [][(resp'.op = "claimBusiness" /\ BusinessExists(resp'.target))
       => /\ businesses' = businesses
          /\ IF businesses[resp'.target].claimed \/ businesses[resp'.target].userId # NULL
             THEN /\ resp'.status = 400
                  /\ businessClaims' = businessClaims
             ELSE /\ resp'.status = 201
                  /\ businessClaims' = Append(businessClaims,
                         [businessId |-> resp'.target, userId |-> resp'.caller,
                          status |-> "pending", approvedAt |-> NULL])]_vars

C10_Witness ==
    /\ resp.op = "claimBusiness"
    /\ resp.status = 400
    /\ businesses[resp.target].userId # NULL
    /\ ~businesses[resp.target].claimed
    /\ Len(businessClaims) = 1
    /\ businessClaims[1].status = "pending"

C12_Contains(text, pattern) ==
    \E i \in 0..(Len(text) - Len(pattern)) :
        \A j \in 1..Len(pattern) : lower(text[i + j]) = lower(pattern[j])

C12_Satisfies(id, q) ==
    LET session == fitnessSessions[id]
    IN  /\ given(q.postcode) =>
               C12_Contains(businesses[session.businessId].postcode, q.postcode[1])
        /\ given(q.sessionType) =>
               C12_Contains(sessionTypes[session.sessionTypeId], q.sessionType[1])
        /\ givenWord(q.ageGroup) => q.ageGroup[1] \in session.ageGroups
        /\ givenWord(q.difficulty) => q.difficulty[1] \in session.difficulty
        /\ q.maxPrice # ABSENT => session.price <= q.maxPrice[1]
        /\ q.minPrice # ABSENT => session.price >= q.minPrice[1]

C12_SearchApprovedAndConjunctive ==
    resp.op = "searchSessions" =>
        /\ \A id \in resp.sessions : fitnessSessions[id].approved
        /\ resp.sessions =
               { id \in 1..Len(fitnessSessions) :
                   fitnessSessions[id].approved /\ C12_Satisfies(id, resp.query) }

C12_Witness ==
    /\ resp.op = "searchSessions"
    /\ given(resp.query.postcode) /\ givenWord(resp.query.ageGroup)
    /\ resp.query.maxPrice # ABSENT
    /\ resp.sessions # {}
    /\ \A id \in resp.sessions :
           /\ businesses[fitnessSessions[id].businessId].postcode = <<"S", "W", "1">>
           /\ fitnessSessions[id].price = 1000

\* C13: every session a search returns belongs to a business that is approved
\* at the time of the search.
C13_SearchOnlyApprovedBusinesses ==
    resp.op = "searchSessions" =>
        \A id \in resp.sessions : businesses[fitnessSessions[id].businessId].approved

\* C14: a booking is created with status confirmed, and afterwards its status
\* changes only from confirmed to cancelled or from confirmed to completed.
C14_BookingStatusTransitions ==
    [][/\ \A id \in 1..Len(bookings') :
             id > Len(bookings) => bookings'[id].status = "confirmed"
       /\ \A id \in 1..Len(bookings) :
             bookings'[id].status # bookings[id].status =>
                 /\ bookings[id].status = "confirmed"
                 /\ bookings'[id].status \in {"cancelled", "completed"}]_vars

\* C15: a booking is created only when a payment intent for exactly its
\* totalAmount was obtained earlier for its session.
C15_BookingNeedsAuthorization ==
    Created("createBooking") =>
        \E intent \in paymentIntents :
            /\ intent.sessionId = LastBooking.sessionId
            /\ intent.amount = LastBooking.totalAmount

\* C16: an upgrade request for the free tier by the owner, from any
\* subscription state, leaves the business on the free tier with booking
\* disabled, no expiry and no subscription reference; it changes nothing else
\* of the business, no other business, no user and nothing at the gateway.
C16_FreeDowngrade ==
    [][\A c \in UserIds, id \in BusinessIds :
          (/\ BusinessExists(id)
           /\ businesses[id].userId = c
           /\ UpgradeSubscription(c, id, "free"))
          => /\ resp'.status = 200
             /\ businesses' = [businesses EXCEPT
                    ![id] = [businesses[id] EXCEPT !.subscriptionTier = "free",
                                                   !.bookingEnabled = FALSE,
                                                   !.subscriptionExpiry = NULL,
                                                   !.stripeSubscriptionId = NOID]]
             /\ businesses'[id].approved = businesses[id].approved
             /\ businesses'[id].claimed = businesses[id].claimed
             /\ businesses'[id].userId = businesses[id].userId
             /\ UNCHANGED <<users, stripeSubs, stripeCustomers, paymentIntents,
                            trainerBookings, selectedDifficulties, selectedAgeGroups>>]_vars

C16_Witness ==
    /\ resp.op = "upgradeSubscription"
    /\ resp.status = 200
    /\ businesses[resp.target].subscriptionTier = "free"
    /\ businesses[resp.target].stripeSubscriptionId = NOID
    /\ Len(stripeSubs) = 1
    /\ businesses[resp.target].approved

\* C17: a paid upgrade that obtained its gateway subscription leaves the
\* business on the paid tier with booking enabled, the gateway's period end and
\* the subscription id, while the subscription's payment is still incomplete;
\* the payment's later outcome writes no business, and booking stays enabled
\* until an upgrade request of the owner changes it.
C17_BookingEnabledBeforePayment ==
    [][/\ \A c \in UserIds, id \in BusinessIds, t \in PaidTiers :
             (UpgradeSubscription(c, id, t) /\ resp'.status = 200)
             => /\ businesses'[id].subscriptionTier = t
                /\ businesses'[id].bookingEnabled = TRUE
                /\ businesses'[id].subscriptionExpiry = PeriodEnd
                /\ businesses'[id].stripeSubscriptionId = Len(stripeSubs')
                /\ Len(stripeSubs') = Len(stripeSubs) + 1
                /\ stripeSubs'[Len(stripeSubs')].status = "incomplete"
       /\ resp'.op = "confirmPayment" => businesses' = businesses
       /\ \A id \in 1..Len(businesses) :
             (businesses[id].bookingEnabled /\ ~businesses'[id].bookingEnabled)
             => (resp'.op = "upgradeSubscription"
                 /\ resp'.caller = businesses[id].userId)]_vars

C17_Witness ==
    /\ resp.op = "confirmPayment"
    /\ stripeSubs[resp.target].status = "failed"
    /\ \E id \in 1..Len(businesses) :
           /\ businesses[id].stripeSubscriptionId = resp.target
           /\ businesses[id].bookingEnabled
           /\ businesses[id].subscriptionTier \in PaidTiers

\* C18: an upgrade request answered with a failure leaves every business and
\* every user as they were.
C18_FailedUpgradePersistsNothing ==
    [][(resp'.op = "upgradeSubscription" /\ resp'.status = 500)
       => UNCHANGED <<users, businesses>>]_vars

\* C19: an upgrade request by a caller who does not own the business (another
\* owner's, an ownerless one, an unknown id) is answered 403, reaches no
\* gateway call and changes no business.
C19_NonOwnerUpgradeDenied ==
    [][(/\ resp'.op = "upgradeSubscription"
        /\ (~BusinessExists(resp'.target)
            \/ businesses[resp'.target].userId # resp'.caller))
       => /\ resp'.status = 403
          /\ UNCHANGED <<businesses, users, stripeSubs, stripeCustomers>>]_vars

\* C20: the gateway is asked to create at most one customer for each user.
C20_OneCustomerPerUser ==
    \A u \in UserIds : stripeCustomers[u] <= 1
\* The two invariants of a business row: booking is enabled only on a paid
\* tier and an approved row, and a claimed row has an owner.
C21_BusinessInvariant(b) ==
    /\ b.bookingEnabled => b.subscriptionTier # "free" /\ b.approved
    /\ b.claimed => b.userId # NULL

\* C21: an admin's approveBusiness(id, a) leaves approved = a, applying it a
\* second time changes nothing (so of two calls the last write wins), and a
\* business that satisfied the business invariants before the call satisfies
\* them after it.
C21_ApproveIdempotentAndSafe ==
    [][\A c \in UserIds, id \in BusinessIds, a \in BOOLEAN :
          (ApproveBusiness(c, id, a) /\ isAdmin(c) /\ BusinessExists(id)) =>
              /\ businesses'[id].approved = a
              /\ [businesses' EXCEPT ![id].approved = a] = businesses'
              /\ C21_BusinessInvariant(businesses[id])
                    => C21_BusinessInvariant(businesses'[id])]_vars

\* C22: approveBusiness by an admin, for true and for false, changes the
\* approved flag of the business it names and nothing else: every other
\* column of that row, every other business and every other table stay.
C22_ApproveChangesOnlyApproved ==
    [][\A c \in UserIds, id \in BusinessIds, a \in BOOLEAN :
          (ApproveBusiness(c, id, a) /\ isAdmin(c) /\ BusinessExists(id)) =>
              /\ Len(businesses') = Len(businesses)
              /\ \A j \in 1..Len(businesses) : j # id => businesses'[j] = businesses[j]
              /\ businesses'[id].approved = a
              /\ businesses'[id].bookingEnabled = businesses[id].bookingEnabled
              /\ businesses'[id].subscriptionTier = businesses[id].subscriptionTier
              /\ businesses'[id].subscriptionExpiry = businesses[id].subscriptionExpiry
              /\ businesses'[id].stripeSubscriptionId = businesses[id].stripeSubscriptionId
              /\ businesses'[id].claimed = businesses[id].claimed
              /\ businesses'[id].userId = businesses[id].userId
              /\ businesses'[id].manuallyAdded = businesses[id].manuallyAdded
              /\ businesses'[id].postcode = businesses[id].postcode
              /\ UNCHANGED <<users, businessClaims, fitnessSessions, stripeSubs>>]_vars

\* An admin has just unapproved a business that is on a paid tier with
\* booking enabled and a subscription reference.
C22_Witness ==
    /\ resp.op = "approveBusiness" /\ resp.status = 200
    /\ BusinessExists(resp.target)
    /\ ~businesses[resp.target].approved
    /\ businesses[resp.target].bookingEnabled
    /\ businesses[resp.target].subscriptionTier \in PaidTiers
    /\ businesses[resp.target].stripeSubscriptionId # NOID

\* C23: a request that tried to send a notification has persisted its
\* mutation first (the row it inserted, or the flag it set, is in the state
\* the request leaves) and reports success, whether or not the mail service
\* took the message; a request that persisted nothing sends nothing.
C23_NotifyAfterPersistAndSwallow ==
    [][/\ resp'.mail # NULL =>
            /\ resp'.status \in {200, 201}
            /\ resp'.op = "registerBusiness" =>
                  /\ Len(businesses') = Len(businesses) + 1
                  /\ businesses'[Len(businesses')].userId = resp'.caller
            /\ resp'.op = "claimBusiness" =>
                  /\ Len(businessClaims') = Len(businessClaims) + 1
                  /\ businessClaims'[Len(businessClaims')].businessId = resp'.target
                  /\ businessClaims'[Len(businessClaims')].userId = resp'.caller
            /\ resp'.op = "createSession" =>
                  /\ Len(fitnessSessions') = Len(fitnessSessions) + 1
                  /\ fitnessSessions'[Len(fitnessSessions')].businessId = resp'.target
            /\ resp'.op = "createBooking" =>
                  /\ Len(bookings') = Len(bookings) + 1
                  /\ bookings'[Len(bookings')].sessionId = resp'.target
                  /\ bookings'[Len(bookings')].userId = resp'.caller
            /\ resp'.op = "applyAsTrainer" =>
                  /\ Len(personalTrainers') = Len(personalTrainers) + 1
                  /\ personalTrainers'[Len(personalTrainers')].userId = resp'.caller
            /\ resp'.op = "createTrainerBooking" =>
                  /\ Len(trainerBookings') = Len(trainerBookings) + 1
                  /\ trainerBookings'[Len(trainerBookings')].trainerId = resp'.target
                  /\ trainerBookings'[Len(trainerBookings')].userId = resp'.caller
       /\ \A c \in UserIds, id \in BusinessIds, a \in BOOLEAN :
             (ApproveBusiness(c, id, a) /\ resp'.mail # NULL) => businesses'[id].approved = a
       /\ \A c \in UserIds, id \in TrainerIds, a \in BOOLEAN :
             (ApproveTrainer(c, id, a) /\ resp'.mail # NULL) =>
                 personalTrainers'[id].approved = a
       /\ resp'.status >= 400 => resp'.mail = NULL]_vars

\* The mail service refused the notification of an approval, the business is
\* approved and the admin got a 200.
C23_Witness ==
    /\ resp.op = "approveBusiness" /\ resp.sent = "failed" /\ resp.status = 200
    /\ businesses[resp.target].approved

\* C24: a trainer booking is created only against a personal trainer that
\* exists and is approved (the handler writes no trainer, so the state right
\* after the insert shows the trainer as it was at creation).
C24_TrainerBookingNeedsApprovedTrainer ==
    Created("createTrainerBooking") =>
        LET booking == trainerBookings[Len(trainerBookings)]
        IN  /\ TrainerExists(booking.trainerId)
            /\ personalTrainers[booking.trainerId].approved

\* C25: after every click on the session form, a selection that holds the
\* sentinel (all_levels, all_ages) holds nothing else; checking the sentinel
\* leaves exactly the sentinel, and checking any other option removes the
\* sentinel and selects that option.
C25_SentinelExclusive ==
    [][/\ includes(selectedDifficulties', "all_levels")
             => selectedDifficulties' = <<"all_levels">>
       /\ includes(selectedAgeGroups', "all_ages") => selectedAgeGroups' = <<"all_ages">>
       /\ \A i \in 1..Len(difficultyOptions) :
             (ChangeDifficulty(i) /\ ~includes(selectedDifficulties, difficultyOptions[i])) =>
                 IF difficultyOptions[i] = "all_levels"
                 THEN selectedDifficulties' = <<"all_levels">>
                 ELSE /\ ~includes(selectedDifficulties', "all_levels")
                      /\ includes(selectedDifficulties', difficultyOptions[i])
       /\ \A i \in 1..Len(ageGroupOptions) :
             (ChangeAgeGroup(i) /\ ~includes(selectedAgeGroups, ageGroupOptions[i])) =>
                 IF ageGroupOptions[i] = "all_ages"
                 THEN selectedAgeGroups' = <<"all_ages">>
                 ELSE /\ ~includes(selectedAgeGroups', "all_ages")
                      /\ includes(selectedAgeGroups', ageGroupOptions[i])]_vars

\* The last click checked "all_levels" and it is all that is selected, while
\* the age groups hold two values next to each other.
C25_Witness ==
    /\ resp.op = "changeDifficulty" /\ difficultyOptions[resp.target] = "all_levels"
    /\ selectedDifficulties = <<"all_levels">>
    /\ selectedAgeGroups = <<"18-25", "50+">>

\* C26: a session created through POST /api/sessions belongs to a business
\* owned by the caller who created it.
C26_SessionOnOwnBusiness ==
    Created("createSession") =>
        businesses[LastSession.businessId].userId = resp.caller

\* C27: every gateway subscription that was created for a business and is
\* still live at the gateway (awaiting payment or active; the handlers never
\* cancel one) is the one the business row references, so a business has at
\* most one live gateway subscription.
C27_OneLiveSubscriptionPerBusiness ==
    /\ \A sub \in 1..Len(stripeSubs) :
          stripeSubs[sub].status \in {"incomplete", "active"} =>
              businesses[stripeSubs[sub].business].stripeSubscriptionId = sub
    /\ \A id \in 1..Len(businesses) :
          Cardinality({sub \in 1..Len(stripeSubs) :
                          /\ stripeSubs[sub].business = id
                          /\ stripeSubs[sub].status \in {"incomplete", "active"}}) <= 1

\* C28: a business has at most one approved claim, and when it has one the
\* business is owned by the user who made that claim.
C28_ApprovedClaimOwnsBusiness ==
    \A id \in 1..Len(businesses) :
        LET approvedClaims == {c \in 1..Len(businessClaims) :
                                  /\ businessClaims[c].businessId = id
                                  /\ businessClaims[c].status = "approved"}
        IN  /\ Cardinality(approvedClaims) <= 1
            /\ \A c \in approvedClaims :
                  businesses[id].userId = businessClaims[c].userId

\* C29: whenever the approve route answers with an error status, the approved
\* flag of every business is what it was before the request.
C29_ApproveErrorChangesNothing ==
    [][\A c \in UserIds, id \in BusinessIds, a \in BOOLEAN :
          (ApproveBusiness(c, id, a) /\ resp'.status >= 400) =>
              /\ Len(businesses') = Len(businesses)
              /\ \A j \in 1..Len(businesses) :
                    businesses'[j].approved = businesses[j].approved]_vars

\* C30: the admin's pending-trainers list holds exactly the trainers with
\* approved = false (the request writes nothing, so the list is compared with
\* the table it was read from).
C30_PendingQueueIsUnapproved ==
    (resp.op = "getPendingTrainers" /\ resp.status = 200) =>
        resp.trainers = {id \in 1..Len(personalTrainers) : ~personalTrainers[id].approved}

====
